---------------------------- MODULE Spec2Model ----------------------------
(***************************************************************************)
(* Model of the HT16K33 LED-matrix / key-scan driver (src/HT16K33.cpp).    *)
(*                                                                         *)
(* The driver object holds an 8 x uint16_t pixel buffer, three orientation *)
(* flags and the I2C address.  Every public method is one action (Op...);  *)
(* the effect of a method on the buffer, or the bus traffic it produces,   *)
(* is an operator that carries the method's own name.                      *)
(*                                                                         *)
(* Bus traffic is recorded in `wire`: the transactions and read requests   *)
(* issued by the most recent call, in order.  `hist` remembers the most    *)
(* recent calls (name, arguments, driver state before the call).           *)
(***************************************************************************)
EXTENDS Integers, Sequences, FiniteSets, TLC

VARIABLES
    inited,      \* init() has run: _buffer is allocated, _i2c_addr is set
    i2c_addr,    \* HT16K33::_i2c_addr
    buffer,      \* HT16K33::_buffer, rows 0..7 of 16-bit words
    reversed,    \* HT16K33::_reversed
    vFlipped,    \* HT16K33::_vFlipped
    hFlipped,    \* HT16K33::_hFlipped
    keybuffer,   \* the caller's uint16_t keybuffer[3] handed to getKeyData
    ret,         \* value returned by the most recent getKeyInterrupt()
    wire,        \* bus events of the most recent call
    power,       \* the chip's oscillator state, driven by SYSTEM commands
    lastSys,     \* most recent of init / wakeUp / sleep
    callsLeft,   \* calls the run may still make; -1: the run is not length-bounded
    hist,        \* the most recent calls, newest first
    flipIn,      \* harness for _flip_uint16: the input word
    flipVal,     \* harness for _flip_uint16: the current word
    flipCnt      \* harness for _flip_uint16: how often it was applied

vars == << inited, i2c_addr, buffer, reversed, vFlipped, hFlipped, keybuffer,
           ret, wire, power, lastSys, callsLeft, hist, flipIn, flipVal, flipCnt >>

drvVars == << inited, i2c_addr, buffer, reversed, vFlipped, hFlipped,
              keybuffer, ret, wire, power, lastSys, callsLeft, hist >>

flipVars == << flipIn, flipVal, flipCnt >>

-----------------------------------------------------------------------------
(* Widths and bit arithmetic on uint8_t / uint16_t values.                 *)

\* uint16_t is 16 bits wide
WordBits == 16

\* uint8_t is 8 bits wide
ByteBits == 8

\* the pixel buffer has 8 rows (calloc(8, sizeof(uint16_t)))
NumRows == 8

Pow2(n) == 2 ^ n

Word == 0 .. (Pow2(WordBits) - 1)

\* truncation on conversion to uint16_t / uint8_t
U16(x) == x % Pow2(WordBits)
U8(x)  == x % Pow2(ByteBits)

RECURSIVE BitAnd(_, _)
BitAnd(a, b) ==
    IF a = 0 \/ b = 0 THEN 0
    ELSE (a % 2) * (b % 2) + 2 * BitAnd(a \div 2, b \div 2)

RECURSIVE BitOr(_, _)
BitOr(a, b) ==
    IF a = 0 THEN b
    ELSE IF b = 0 THEN a
    ELSE (IF a % 2 = 1 \/ b % 2 = 1 THEN 1 ELSE 0)
         + 2 * BitOr(a \div 2, b \div 2)

\* ~x as seen through a 16-bit destination
BitNot16(x) == (Pow2(WordBits) - 1) - U16(x)

Shl(x, n) == x * Pow2(n)
Shr(x, n) == x \div Pow2(n)

\* bit i of w, used to state properties bit by bit
Bit(w, i) == (w \div Pow2(i)) % 2

B2N(b) == IF b THEN 1 ELSE 0

-----------------------------------------------------------------------------
(* Command bytes of HT16K33.h (the header is not part of src/; the values  *)
(* are the chip's register map).                                           *)

HT16K33_CMD_RAM == 0
HT16K33_CMD_KEYS == 64
HT16K33_CMD_INTFLAG == 96
HT16K33_CMD_SYSTEM == 32
HT16K33_CMD_SETUP == 128
HT16K33_CMD_ROWINT == 160
HT16K33_CMD_DIMMING == 224
HT16K33_DISPLAY_ON == 1
HT16K33_BLINK_OFF == 0

-----------------------------------------------------------------------------
(* Bus events.                                                             *)

\* beginTransmission(addr); write(b1); ...; endTransmission()
Tx(addr, bytes) == [kind |-> "tx", addr |-> addr, data |-> bytes, n |-> 0]

\* requestFrom(addr, n)
Req(addr, n) == [kind |-> "req", addr |-> addr, data |-> << >>, n |-> n]

\* The chip's oscillator after one more bus event: a transaction whose
\* command byte is in the SYSTEM group sets it from bit 0.
DeviceStep(p, ev) ==
    IF ev.kind = "tx" /\ Len(ev.data) > 0
       /\ BitAnd(ev.data[1], 240) = HT16K33_CMD_SYSTEM
    THEN (IF ev.data[1] % 2 = 1 THEN "Awake" ELSE "Asleep")
    ELSE p

RECURSIVE DeviceRun(_, _)
DeviceRun(p, evs) ==
    IF evs = << >> THEN p
    ELSE DeviceRun(DeviceStep(p, Head(evs)), Tail(evs))

-----------------------------------------------------------------------------
(* _flip_uint16                                                            *)

RECURSIVE flip_loop(_, _, _)
flip_loop(in, out, i) ==
    IF i < WordBits
    THEN flip_loop(in \div 2, BitOr(U16(out * 2), in % 2), i + 1)
    ELSE out

\* variant: the loop runs 15 times (counter started at 1)
flip_uint16_short(in) == flip_loop(in, 0, 1)

_flip_uint16(in) == flip_loop(in, 0, 0)

-----------------------------------------------------------------------------
(* Sprite16 (declared outside src/): a bitmap of height() rows, each row a *)
(* 16-bit word returned by readRow(row).                                   *)

Sprite(rows) == [height |-> Len(rows), rows |-> rows]

height(sprite) == sprite.height

readRow(sprite, row) == sprite.rows[row + 1]

-----------------------------------------------------------------------------
(* Effects of the buffer methods: each operator returns the new _buffer.   *)

Rows == 0 .. (NumRows - 1)

\* calloc(8, sizeof(uint16_t))
ZeroBuffer == [r \in Rows |-> 0]

\* HT16K33::clear: the loop writes 0 to rows 0..7
RECURSIVE clear_loop(_, _)
clear_loop(buf, i) ==
    IF i < NumRows
    THEN clear_loop([buf EXCEPT ![i] = 0], i + 1)
    ELSE buf

\* variant: the loop skips row 0 (counter started at 1)
clear_short(buf) == clear_loop(buf, 1)

clear(buf) == clear_loop(buf, 0)

\* variant: the clearing branch lacks the complement, buf[row] &= (1 << col)
setPixel_noNot(buf, col0, row0, val0) ==
    LET col == BitAnd(col0, 15)
        row == BitAnd(row0, 7)
        val == BitAnd(val0, 1)
    IN  IF val = 1
        THEN [buf EXCEPT ![row] = U16(BitOr(buf[row], Shl(1, col)))]
        ELSE [buf EXCEPT ![row] = BitAnd(buf[row], U16(Shl(1, col)))]

\* HT16K33::setPixel.  1 << col is an int; for col = 15 it is 0x8000 in
\* the 16 bits that reach _buffer, whatever the width of int.
setPixel(buf, col0, row0, val0) ==
    LET col == BitAnd(col0, 15)
        row == BitAnd(row0, 7)
        val == BitAnd(val0, 1)
    IN  IF val = 1
        THEN [buf EXCEPT ![row] = U16(BitOr(buf[row], Shl(1, col)))]
        ELSE [buf EXCEPT ![row] = BitAnd(buf[row], BitNot16(Shl(1, col)))]

\* HT16K33::setRow
setRow(buf, row0, value) ==
    LET row == BitAnd(row0, 7)
    IN  [buf EXCEPT ![row] = U16(value)]

\* HT16K33::setColumn: one setPixel per row
RECURSIVE column_loop(_, _, _, _)
column_loop(buf, col, value, row) ==
    IF row < NumRows
    THEN column_loop(
             setPixel(buf, col, row, B2N(BitAnd(value, Shl(1, row)) > 0)),
             col, value, row + 1)
    ELSE buf

setColumn(buf, col, value) == column_loop(buf, col, value, 0)

\* HT16K33::drawSprite16(sprite, colOffset, rowOffset)
RECURSIVE sprite_loop(_, _, _, _, _)
sprite_loop(buf, sprite, colOffset, rowOffset, row) ==
    IF row < height(sprite)
    THEN LET dst == BitAnd(row + rowOffset, 7)
             src == BitAnd(Shl(readRow(sprite, row), colOffset), 65535)
         IN  sprite_loop([buf EXCEPT ![dst] = BitOr(buf[dst], src)],
                         sprite, colOffset, rowOffset, row + 1)
    ELSE buf

\* variant: the destination row is off by one, (row + rowOffset + 1) & 0x07
RECURSIVE sprite_loop_shifted(_, _, _, _, _)
sprite_loop_shifted(buf, sprite, colOffset, rowOffset, row) ==
    IF row < height(sprite)
    THEN LET dst == BitAnd(row + rowOffset + 1, 7)
             src == BitAnd(Shl(readRow(sprite, row), colOffset), 65535)
         IN  sprite_loop_shifted([buf EXCEPT ![dst] = BitOr(buf[dst], src)],
                                 sprite, colOffset, rowOffset, row + 1)
    ELSE buf

drawSprite16_shifted(buf, sprite, colOffset, rowOffset) ==
    sprite_loop_shifted(buf, sprite, colOffset, rowOffset, 0)

drawSprite16(buf, sprite, colOffset, rowOffset) ==
    sprite_loop(buf, sprite, colOffset, rowOffset, 0)

\* HT16K33::drawSprite16(sprite): same as the above, without offsets
drawSprite16_1(buf, sprite) == drawSprite16(buf, sprite, 0, 0)

-----------------------------------------------------------------------------
(* Bus traffic of the protocol methods: each operator returns the events   *)
(* the method puts on the bus.                                             *)

\* variant: the horizontal flip is not applied
writeRow_noHFlip(buf, rev, vf, hf, row0) ==
    LET row == IF vf THEN 7 - row0 ELSE row0
        out == buf[row]
    IN  IF rev
        THEN << U8(Shr(out, 8)), U8(BitAnd(out, 255)) >>
        ELSE << U8(BitAnd(out, 255)), U8(Shr(out, 8)) >>

\* HT16K33::writeRow: the two bytes written for physical row `row0`
writeRow(buf, rev, vf, hf, row0) ==
    LET row == IF vf THEN 7 - row0 ELSE row0
        raw == buf[row]
        out == IF hf THEN _flip_uint16(raw) ELSE raw
    IN  IF rev
        THEN << U8(Shr(out, 8)), U8(BitAnd(out, 255)) >>
        ELSE << U8(BitAnd(out, 255)), U8(Shr(out, 8)) >>

\* HT16K33::write: the RAM command, then writeRow(0) .. writeRow(7)
RECURSIVE write_loop(_, _, _, _, _, _)
write_loop(bytes, buf, rev, vf, hf, row) ==
    IF row < NumRows
    THEN write_loop(bytes \o writeRow(buf, rev, vf, hf, row),
                    buf, rev, vf, hf, row + 1)
    ELSE bytes

write(addr, buf, rev, vf, hf) ==
    << Tx(addr, write_loop(<< U8(HT16K33_CMD_RAM) >>, buf, rev, vf, hf, 0)) >>

\* variant: the oscillator bit is left set
sleep_oscOn(addr) ==
    << Tx(addr, << U8(BitOr(HT16K33_CMD_SYSTEM, 1)) >>) >>

\* HT16K33::sleep: HT16K33_CMD_SYSTEM & ~(1UL)
sleep(addr) ==
    << Tx(addr, << U8(HT16K33_CMD_SYSTEM - (HT16K33_CMD_SYSTEM % 2)) >>) >>

\* HT16K33::wakeUp
wakeUp(addr) ==
    << Tx(addr, << U8(BitOr(HT16K33_CMD_SYSTEM, 1)) >>) >>

\* variant: the brightness is not masked to 4 bits
setBrightness_noMask(addr, brightness0) ==
    << Tx(addr, << U8(BitOr(HT16K33_CMD_DIMMING, brightness0)) >>) >>

\* HT16K33::setBrightness
setBrightness(addr, brightness0) ==
    LET brightness == BitAnd(brightness0, 15)
    IN  << Tx(addr, << U8(BitOr(HT16K33_CMD_DIMMING, brightness)) >>) >>

\* HT16K33::setBlink
setBlink(addr, blink) ==
    << Tx(addr,
          << U8(BitOr(BitOr(HT16K33_CMD_SETUP, HT16K33_DISPLAY_ON), blink)) >>) >>

\* variant: act is not ANDed with row_int
setRowIntPin_noAnd(addr, row_int, act) ==
    << Tx(addr,
          << U8(BitOr(BitOr(HT16K33_CMD_ROWINT, Shl(B2N(act), 1)),
                      B2N(row_int))) >>) >>

\* HT16K33::setRowIntPin: HT16K33_CMD_ROWINT | (act & row_int) << 1 | row_int
setRowIntPin(addr, row_int, act) ==
    << Tx(addr,
          << U8(BitOr(BitOr(HT16K33_CMD_ROWINT,
                            Shl(BitAnd(B2N(act), B2N(row_int)), 1)),
                      B2N(row_int))) >>) >>

\* HT16K33::getKeyData, the bus side: select the key register, request 6 bytes
getKeyData(addr) ==
    << Tx(addr, << U8(HT16K33_CMD_KEYS) >>), Req(addr, 6) >>

\* HT16K33::getKeyData, the decoding loop: `rx` are the bytes the chip
\* returned, consumed by Wire.read() in order; returns the new _key_buffer
RECURSIVE key_loop(_, _, _)
key_loop(kb, rx, row) ==
    IF row < 2
    THEN LET lsb == rx[2 * row + 1]
             msb == rx[2 * row + 2]
         IN  key_loop([kb EXCEPT ![row] = U16(BitOr(Shl(msb, 8), lsb))],
                      rx, row + 1)
    ELSE kb

\* HT16K33::getKeyInterrupt, the bus side
getKeyInterrupt(addr) ==
    << Tx(addr, << U8(HT16K33_CMD_INTFLAG) >>), Req(addr, 1) >>

\* HT16K33::init, the bus side: wakeUp, setBlink(off), setBrightness(15),
\* write of the freshly zeroed buffer with the orientation reset
init(addr) ==
    wakeUp(addr) \o setBlink(addr, HT16K33_BLINK_OFF) \o setBrightness(addr, 15)
    \o write(addr, ZeroBuffer, FALSE, FALSE, FALSE)

-----------------------------------------------------------------------------
(* The calls.  Before init() the object has no buffer and no address, and  *)
(* every program of the repository calls init() first (setup()), so every  *)
(* other call is modelled on an initialised object.                        *)

\* the driver state a call starts from, remembered in hist
Snap ==
    [buffer |-> buffer, reversed |-> reversed, vFlipped |-> vFlipped,
     hFlipped |-> hFlipped, keybuffer |-> keybuffer]

ZeroKeys == [i \in 0 .. 2 |-> 0]

NoCall ==
    [op |-> "none", args |-> << >>,
     before |-> [buffer |-> ZeroBuffer, reversed |-> FALSE, vFlipped |-> FALSE,
                 hFlipped |-> FALSE, keybuffer |-> ZeroKeys]]

\* bookkeeping of one call: the run's length, and the history
Record(op, args) ==
    /\ callsLeft # 0
    /\ callsLeft' = (IF callsLeft > 0 THEN callsLeft - 1 ELSE callsLeft)
    /\ hist' = << [op |-> op, args |-> args, before |-> Snap] >>
               \o SubSeq(hist, 1, Len(hist) - 1)
    /\ UNCHANGED flipVars

\* the call's bus traffic reaches the chip
Bus(evs) ==
    /\ wire' = evs
    /\ power' = DeviceRun(power, evs)

OpInit(addr) ==
    /\ Record("init", << addr >>)
    /\ reversed' = FALSE
    /\ vFlipped' = FALSE
    /\ hFlipped' = FALSE
    /\ i2c_addr' = addr
    /\ buffer' = ZeroBuffer
    /\ inited' = TRUE
    /\ Bus(init(addr))
    /\ lastSys' = "init"
    /\ UNCHANGED << keybuffer, ret >>

OpGetKeyData(rx) ==
    /\ inited
    /\ Record("getKeyData", << rx >>)
    /\ Bus(getKeyData(i2c_addr))
    /\ keybuffer' = key_loop(keybuffer, rx, 0)
    /\ UNCHANGED << inited, i2c_addr, buffer, reversed, vFlipped, hFlipped,
                    ret, lastSys >>

OpSetRowIntPin(row_int, act) ==
    /\ inited
    /\ Record("setRowIntPin", << row_int, act >>)
    /\ Bus(setRowIntPin(i2c_addr, row_int, act))
    /\ UNCHANGED << inited, i2c_addr, buffer, reversed, vFlipped, hFlipped,
                    keybuffer, ret, lastSys >>

OpSleep ==
    /\ inited
    /\ Record("sleep", << >>)
    /\ Bus(sleep(i2c_addr))
    /\ lastSys' = "sleep"
    /\ UNCHANGED << inited, i2c_addr, buffer, reversed, vFlipped, hFlipped,
                    keybuffer, ret >>

OpWakeUp ==
    /\ inited
    /\ Record("wakeUp", << >>)
    /\ Bus(wakeUp(i2c_addr))
    /\ lastSys' = "wakeUp"
    /\ UNCHANGED << inited, i2c_addr, buffer, reversed, vFlipped, hFlipped,
                    keybuffer, ret >>

OpGetKeyInterrupt(intflags) ==
    /\ inited
    /\ Record("getKeyInterrupt", << intflags >>)
    /\ Bus(getKeyInterrupt(i2c_addr))
    /\ ret' = (intflags > 0)
    /\ UNCHANGED << inited, i2c_addr, buffer, reversed, vFlipped, hFlipped,
                    keybuffer, lastSys >>

OpSetBrightness(brightness) ==
    /\ inited
    /\ Record("setBrightness", << brightness >>)
    /\ Bus(setBrightness(i2c_addr, brightness))
    /\ UNCHANGED << inited, i2c_addr, buffer, reversed, vFlipped, hFlipped,
                    keybuffer, ret, lastSys >>

OpSetBlink(blink) ==
    /\ inited
    /\ Record("setBlink", << blink >>)
    /\ Bus(setBlink(i2c_addr, blink))
    /\ UNCHANGED << inited, i2c_addr, buffer, reversed, vFlipped, hFlipped,
                    keybuffer, ret, lastSys >>

\* the buffer and flag methods do no bus I/O
NoBus ==
    /\ wire' = << >>
    /\ UNCHANGED << inited, i2c_addr, keybuffer, ret, power, lastSys >>

\* HT16K33::reverse
reverse(rev) == ~rev

\* HT16K33::flipVertical
flipVertical(vf) == ~vf

\* variant: the flag is set instead of toggled
flipHorizontal_set(hf) == TRUE

\* HT16K33::flipHorizontal
flipHorizontal(hf) == ~hf

OpReverse ==
    /\ inited
    /\ Record("reverse", << >>)
    /\ reversed' = reverse(reversed)
    /\ NoBus
    /\ UNCHANGED << buffer, vFlipped, hFlipped >>

OpFlipVertical ==
    /\ inited
    /\ Record("flipVertical", << >>)
    /\ vFlipped' = flipVertical(vFlipped)
    /\ NoBus
    /\ UNCHANGED << buffer, reversed, hFlipped >>

OpFlipHorizontal ==
    /\ inited
    /\ Record("flipHorizontal", << >>)
    /\ hFlipped' = flipHorizontal(hFlipped)
    /\ NoBus
    /\ UNCHANGED << buffer, reversed, vFlipped >>

OpClear ==
    /\ inited
    /\ Record("clear", << >>)
    /\ buffer' = clear(buffer)
    /\ NoBus
    /\ UNCHANGED << reversed, vFlipped, hFlipped >>

OpSetPixel(col, row, val) ==
    /\ inited
    /\ Record("setPixel", << col, row, val >>)
    /\ buffer' = setPixel(buffer, col, row, val)
    /\ NoBus
    /\ UNCHANGED << reversed, vFlipped, hFlipped >>

OpSetRow(row, value) ==
    /\ inited
    /\ Record("setRow", << row, value >>)
    /\ buffer' = setRow(buffer, row, value)
    /\ NoBus
    /\ UNCHANGED << reversed, vFlipped, hFlipped >>

OpSetColumn(col, value) ==
    /\ inited
    /\ Record("setColumn", << col, value >>)
    /\ buffer' = setColumn(buffer, col, value)
    /\ NoBus
    /\ UNCHANGED << reversed, vFlipped, hFlipped >>

OpDrawSprite16(sprite, colOffset, rowOffset) ==
    /\ inited
    /\ Record("drawSprite16", << sprite, colOffset, rowOffset >>)
    /\ buffer' = drawSprite16(buffer, sprite, colOffset, rowOffset)
    /\ NoBus
    /\ UNCHANGED << reversed, vFlipped, hFlipped >>

OpDrawSprite16_1(sprite) ==
    /\ inited
    /\ Record("drawSprite16_1", << sprite >>)
    /\ buffer' = drawSprite16_1(buffer, sprite)
    /\ NoBus
    /\ UNCHANGED << reversed, vFlipped, hFlipped >>

OpWrite ==
    /\ inited
    /\ Record("write", << >>)
    /\ Bus(write(i2c_addr, buffer, reversed, vFlipped, hFlipped))
    /\ UNCHANGED << inited, i2c_addr, buffer, reversed, vFlipped, hFlipped,
                    keybuffer, ret, lastSys >>

-----------------------------------------------------------------------------
(* Inputs.                                                                 *)

\* the length of a length-bounded run, init() included
MaxOps == 4

\* the 7-bit address used by the demo sketch (init(0x70))
Addr == 112

\* a 3-row and an 8-row sprite with distinct, asymmetric rows
Sprite3 == Sprite(<< 255, 32769, 3855 >>)

Sprite8 == Sprite(<< 1, 770, 5, 4680, 32768, 240, 42435, 65534 >>)

\* 6-byte answers of the chip to a key-data read
KeyReads == { << 0, 0, 0, 0, 0, 0 >>,
              << 1, 0, 0, 16, 52, 18 >>,
              << 255, 31, 2, 1, 0, 4 >> }

\* the state after construction: nothing allocated, the chip in standby
InitDriver(depth, calls) ==
    /\ inited = FALSE
    /\ i2c_addr = 0
    /\ buffer = ZeroBuffer
    /\ reversed = FALSE
    /\ vFlipped = FALSE
    /\ hFlipped = FALSE
    /\ keybuffer = ZeroKeys
    /\ ret = FALSE
    /\ wire = << >>
    /\ power = "Asleep"
    /\ lastSys = "none"
    /\ callsLeft = calls
    /\ hist = [i \in 1 .. depth |-> NoCall]
    /\ flipIn = 0
    /\ flipVal = 0
    /\ flipCnt = 0

-----------------------------------------------------------------------------
(* Spec: every method, runs of at most MaxOps calls.                       *)

Init == InitDriver(1, MaxOps)

Next ==
    \/ OpInit(Addr)
    \/ \E rx \in KeyReads : OpGetKeyData(rx)
    \/ \E row_int \in BOOLEAN, act \in BOOLEAN : OpSetRowIntPin(row_int, act)
    \/ OpSleep
    \/ OpWakeUp
    \/ \E intflags \in {0, 1, 128} : OpGetKeyInterrupt(intflags)
    \/ \E brightness \in {7, 255} : OpSetBrightness(brightness)
    \/ \E blink \in {0, 6, 255} : OpSetBlink(blink)
    \/ OpReverse
    \/ OpFlipVertical
    \/ OpFlipHorizontal
    \/ OpClear
    \/ \E col \in {3, 31}, row \in {11}, val \in {1, 2} : OpSetPixel(col, row, val)
    \/ \E row \in {3, 15}, value \in {42435} : OpSetRow(row, value)
    \/ \E col \in {15}, value \in {129} : OpSetColumn(col, value)
    \/ \E sprite \in {Sprite3, Sprite8}, colOffset \in {0, 4}, rowOffset \in {0, 6} :
          OpDrawSprite16(sprite, colOffset, rowOffset)
    \/ \E sprite \in {Sprite3, Sprite8} : OpDrawSprite16_1(sprite)
    \/ OpWrite

Spec == Init /\ [][Next]_vars

-----------------------------------------------------------------------------
(* Vocabulary of the properties.  Nothing below is used by the model: the  *)
(* expected values are stated bit by bit and byte by byte, not through the *)
(* operators that model the code.                                          *)

\* the most recent call
Last == hist[1]

\* byte b is x | y
IsOr8(b, x, y) ==
    /\ b \in 0 .. 255
    /\ \A i \in 0 .. 7 : (Bit(b, i) = 1) <=> (Bit(x, i) = 1 \/ Bit(y, i) = 1)

\* the wire carries exactly one transaction, of the one byte b
OneByte(b) ==
    /\ Len(wire) = 1
    /\ wire[1].kind = "tx"
    /\ wire[1].addr = i2c_addr
    /\ Len(wire[1].data) = 1
    /\ wire[1].data[1] = b

\* ev is a transaction whose command byte is in the SYSTEM group (0x2X)
IsSystemCmd(ev) ==
    /\ ev.kind = "tx"
    /\ Len(ev.data) > 0
    /\ ev.data[1] \div 16 = HT16K33_CMD_SYSTEM \div 16

-----------------------------------------------------------------------------
\* C7: setRowIntPin(useAsInterrupt, activeHigh) sends the single byte
\* ROWINT | ((activeHigh AND useAsInterrupt) << 1) | useAsInterrupt:
\* (true,true) gives ROWINT|3, (true,false) ROWINT|1, (false,_) ROWINT|0.
C7_RowIntEncoding ==
    Last.op = "setRowIntPin" =>
        LET ri  == Last.args[1]
            act == Last.args[2]
            code == IF ri /\ act THEN 3 ELSE IF ri THEN 1 ELSE 0
        IN  /\ Len(wire) = 1
            /\ wire[1].kind = "tx"
            /\ wire[1].addr = i2c_addr
            /\ Len(wire[1].data) = 1
            /\ IsOr8(wire[1].data[1], HT16K33_CMD_ROWINT, code)
            /\ buffer = Last.before.buffer

C7_Witness ==
    /\ Last.op = "setRowIntPin"
    /\ Last.args = << FALSE, TRUE >>
    /\ OneByte(HT16K33_CMD_ROWINT)

-----------------------------------------------------------------------------
\* C8: getKeyData(out) selects the KEYS register in its own transaction,
\* requests 6 bytes, and afterwards out[i], i = 0, 1, 2, is the word formed
\* low-byte-first from bytes 2i and 2i+1 of the 6 bytes read, whatever out
\* held before.
C8_KeySnapshot ==
    Last.op = "getKeyData" =>
        LET rx == Last.args[1]
        IN  /\ wire = << Tx(i2c_addr, << HT16K33_CMD_KEYS >>), Req(i2c_addr, 6) >>
            /\ \A i \in 0 .. 2 :
                   keybuffer[i] = rx[2 * i + 1] + 256 * rx[2 * i + 2]

-----------------------------------------------------------------------------
\* C9: the chip's power mode follows the SYSTEM commands only: after init
\* it is Awake (init sends SYSTEM with the oscillator bit set, then blink
\* off, brightness 15 and one full write, in that order), wakeUp gives
\* Awake, sleep gives Asleep (oscillator bit cleared), and no other call
\* sends a SYSTEM command; so the mode is Asleep iff the most recent of
\* init / wakeUp / sleep was sleep.
C9_PowerMode ==
    /\ inited => ((power = "Asleep") <=> (lastSys = "sleep"))
    /\ Last.op = "init" =>
           /\ power = "Awake"
           /\ Len(wire) = 4
           /\ \A k \in 1 .. 4 : wire[k].kind = "tx" /\ wire[k].addr = i2c_addr
           /\ Len(wire[1].data) = 1
           /\ IsOr8(wire[1].data[1], HT16K33_CMD_SYSTEM, 1)
           /\ Len(wire[2].data) = 1
           /\ IsOr8(wire[2].data[1], HT16K33_CMD_SETUP, HT16K33_DISPLAY_ON)
           /\ Len(wire[3].data) = 1
           /\ IsOr8(wire[3].data[1], HT16K33_CMD_DIMMING, 15)
           /\ Len(wire[4].data) = 17
           /\ wire[4].data[1] = HT16K33_CMD_RAM
           /\ \A j \in 2 .. 17 : wire[4].data[j] = 0
    /\ Last.op = "wakeUp" =>
           /\ Len(wire) = 1
           /\ Len(wire[1].data) = 1
           /\ IsSystemCmd(wire[1])
           /\ wire[1].data[1] % 2 = 1
           /\ power = "Awake"
    /\ Last.op = "sleep" =>
           /\ Len(wire) = 1
           /\ Len(wire[1].data) = 1
           /\ IsSystemCmd(wire[1])
           /\ wire[1].data[1] % 2 = 0
           /\ power = "Asleep"
    /\ Last.op \notin {"init", "wakeUp", "sleep"} =>
           \A k \in 1 .. Len(wire) : ~IsSystemCmd(wire[k])

\* asleep, with a later call that is none of init / wakeUp / sleep
C9_Witness ==
    /\ Last.op = "setBlink"
    /\ Last.args = << 255 >>
    /\ lastSys = "sleep"
    /\ power = "Asleep"

-----------------------------------------------------------------------------
\* C5: on an all-zero buffer, drawSprite with colOffset = 0 and
\* rowOffset = 0 (or the overload without offsets) of a sprite of height
\* h <= 8 leaves row r equal to the sprite's row r (16 bits) for r < h and
\* rows h..7 zero.
C5_Applies ==
    /\ Last.op \in {"drawSprite16", "drawSprite16_1"}
    /\ Last.op = "drawSprite16" => Last.args[2] = 0 /\ Last.args[3] = 0
    /\ Last.args[1].height <= 8
    /\ \A r \in Rows : Last.before.buffer[r] = 0

C5_SpriteOnClearedBuffer ==
    C5_Applies =>
        \A r \in Rows :
            buffer[r] = IF r < Last.args[1].height
                        THEN Last.args[1].rows[r + 1] % 65536
                        ELSE 0

C5_Witness ==
    /\ C5_Applies
    /\ Last.op = "drawSprite16"
    /\ Last.args[1].height = 3
    /\ buffer[1] = 32769
    /\ buffer[3] = 0

-----------------------------------------------------------------------------
(* SpecPixel: init, clear, setPixel, setRow, setBrightness and setBlink,   *)
(* runs of any length, the two most recent calls remembered.               *)

InitPixel == InitDriver(2, -1)

NextPixel ==
    \/ OpInit(Addr)
    \/ OpClear
    \/ \E col \in {3, 15, 19}, row \in {3, 11}, val \in {0, 1, 2, 3} :
          OpSetPixel(col, row, val)
    \/ \E row \in {3, 11}, value \in {5, 42435} : OpSetRow(row, value)
    \/ \E brightness \in {7, 15, 23, 255} : OpSetBrightness(brightness)
    \/ \E blink \in {0, 2, 6, 10, 255} : OpSetBlink(blink)

SpecPixel == InitPixel /\ [][NextPixel]_vars

\* setPixel(col, row, 1) directly followed by setPixel(col, row, 0)
C2_Applies ==
    /\ hist[1].op = "setPixel"
    /\ hist[2].op = "setPixel"
    /\ hist[2].args[3] = 1
    /\ hist[1].args[3] = 0
    /\ hist[1].args[1] = hist[2].args[1]
    /\ hist[1].args[2] = hist[2].args[2]

\* C2 as stated: setPixel(col, row, 1) followed by setPixel(col, row, 0)
\* restores the original bit at (col mod 16, row mod 8).
C2_RestoresOriginalBit ==
    C2_Applies =>
        LET c == hist[1].args[1] % 16
            r == hist[1].args[2] % 8
        IN  Bit(buffer[r], c) = Bit(hist[2].before.buffer[r], c)

\* C2 as amended: setPixel(col, row, 1) followed by setPixel(col, row, 0)
\* leaves the bit at (col mod 16, row mod 8) cleared and every other bit of
\* the buffer as it was before the two calls; the original bit is restored
\* exactly when it was 0.
C2_ClearsBit ==
    C2_Applies =>
        LET c == hist[1].args[1] % 16
            r == hist[1].args[2] % 8
            orig == hist[2].before.buffer
        IN  /\ Bit(buffer[r], c) = 0
            /\ \A rr \in Rows : \A cc \in 0 .. 15 :
                   (rr # r \/ cc # c) => Bit(buffer[rr], cc) = Bit(orig[rr], cc)
            /\ \A rr \in Rows : buffer[rr] \in 0 .. 65535
            /\ (buffer = orig) <=> (Bit(orig[r], c) = 0)

\* the pair applied to a bit that was 1, in a row with other bits set
C2_Witness ==
    /\ C2_Applies
    /\ hist[1].args[1] = 19
    /\ hist[2].before.buffer[3] = 42443
    /\ buffer[3] = 42435

-----------------------------------------------------------------------------
(* C10: coercion of out-of-range arguments.                                *)

\* setPixel acts on bit (col & 0x0F, row & 0x07) with value val & 0x01 only
C10_SetPixelMasked ==
    Last.op = "setPixel" =>
        LET c == Last.args[1] % 16
            r == Last.args[2] % 8
            v == Last.args[3] % 2
        IN  /\ \A rr \in Rows : \A cc \in 0 .. 15 :
                   Bit(buffer[rr], cc) =
                       IF rr = r /\ cc = c THEN v
                       ELSE Bit(Last.before.buffer[rr], cc)
            /\ \A rr \in Rows : buffer[rr] \in 0 .. 65535
            /\ wire = << >>

\* setRow replaces row (row & 0x07) and nothing else
C10_SetRowMasked ==
    Last.op = "setRow" =>
        /\ \A rr \in Rows :
               buffer[rr] = IF rr = Last.args[1] % 8 THEN Last.args[2]
                            ELSE Last.before.buffer[rr]
        /\ wire = << >>

\* setBrightness sends exactly DIMMING | (level & 0x0F)
C10_SetBrightnessMasked ==
    Last.op = "setBrightness" =>
        /\ Len(wire) = 1
        /\ Len(wire[1].data) = 1
        /\ OneByte(wire[1].data[1])
        /\ IsOr8(wire[1].data[1], HT16K33_CMD_DIMMING, Last.args[1] % 16)
        /\ buffer = Last.before.buffer

\* the blink code field of the SETUP command: bits 1 and 2
BlinkField == {1, 2}

\* setBlink's byte differs from SETUP | DISPLAY_ON only inside the blink
\* code field
C10_SetBlinkMasked ==
    Last.op = "setBlink" =>
        /\ Len(wire) = 1
        /\ Len(wire[1].data) = 1
        /\ OneByte(wire[1].data[1])
        /\ \A i \in (0 .. 7) \ BlinkField :
               Bit(wire[1].data[1], i) =
                   Bit(HT16K33_CMD_SETUP + HT16K33_DISPLAY_ON, i)
        /\ \A i \in BlinkField :
               Bit(wire[1].data[1], i) = Bit(Last.args[1], i)
        /\ buffer = Last.before.buffer

\* setBlink sends SETUP | DISPLAY_ON | blink with all 8 bits of blink
C10_SetBlinkUnmasked ==
    Last.op = "setBlink" =>
        /\ Len(wire) = 1
        /\ Len(wire[1].data) = 1
        /\ OneByte(wire[1].data[1])
        /\ \A i \in 0 .. 7 :
               (Bit(wire[1].data[1], i) = 1) <=>
                   \/ Bit(HT16K33_CMD_SETUP, i) = 1
                   \/ Bit(HT16K33_DISPLAY_ON, i) = 1
                   \/ Bit(Last.args[1], i) = 1
        /\ buffer = Last.before.buffer

\* C10 as stated: every out-of-range input is coerced by masking, so the
\* effect of setPixel, setRow, setBrightness and setBlink depends only on
\* col & 0x0F, row & 0x07, val & 0x01, brightness & 0x0F and the 2-bit
\* blink code; setBrightness sends DIMMING | (level & 0x0F) and setBlink's
\* byte differs from SETUP | DISPLAY_ON only inside the blink code field.
C10_AllInputsMasked ==
    /\ C10_SetPixelMasked
    /\ C10_SetRowMasked
    /\ C10_SetBrightnessMasked
    /\ C10_SetBlinkMasked

\* C10 as amended: setPixel, setRow and setBrightness coerce their
\* arguments by masking as stated (setBrightness sends exactly
\* DIMMING | (level & 0x0F)); setBlink does not mask: it sends
\* SETUP | DISPLAY_ON | blink with all 8 bits of blink, so its byte
\* differs from SETUP | DISPLAY_ON outside the blink code field whenever
\* blink has a bit set there that SETUP | DISPLAY_ON has not.
C10_MaskedExceptBlink ==
    /\ C10_SetPixelMasked
    /\ C10_SetRowMasked
    /\ C10_SetBrightnessMasked
    /\ C10_SetBlinkUnmasked

\* an out-of-range brightness (0x17) was sent as DIMMING | 7
C10_Witness ==
    /\ Last.op = "setBrightness"
    /\ Last.args = << 23 >>
    /\ OneByte(HT16K33_CMD_DIMMING + 7)
    /\ hist[2].op = "setPixel"
    /\ hist[2].args = << 19, 11, 3 >>
    /\ buffer[3] = 8

-----------------------------------------------------------------------------
(* SpecOrient: init, setRow, drawSprite16, clear, the three flips and      *)
(* write, runs of any length, the three most recent calls remembered.      *)

InitOrient == InitDriver(3, -1)

NextOrient ==
    \/ OpInit(Addr)
    \/ OpSetRow(3, 5)
    \/ OpDrawSprite16_1(Sprite8)
    \/ OpClear
    \/ OpReverse
    \/ OpFlipVertical
    \/ OpFlipHorizontal
    \/ OpWrite

SpecOrient == InitOrient /\ [][NextOrient]_vars

\* w with bit i and bit 15 - i exchanged, for all i
Reversed16(w) ==
    LET term[i \in 0 .. 16] ==
            IF i = 16 THEN 0 ELSE Bit(w, i) * Pow2(15 - i) + term[i + 1]
    IN  term[0]

\* the byte pair of physical row p for buffer buf and flags rev, vf, hf
ExpectedPair(buf, rev, vf, hf, p) ==
    LET w  == buf[IF vf THEN 7 - p ELSE p]
        o  == IF hf THEN Reversed16(w) ELSE w
        lo == o % 256
        hi == o \div 256
    IN  IF rev THEN << hi, lo >> ELSE << lo, hi >>

\* the wire carries one transaction: the RAM command and the 16 data bytes
\* that buffer buf serialises to under flags rev, vf, hf
IsWriteOf(buf, rev, vf, hf) ==
    /\ Len(wire) = 1
    /\ wire[1].kind = "tx"
    /\ wire[1].addr = i2c_addr
    /\ Len(wire[1].data) = 17
    /\ wire[1].data[1] = HT16K33_CMD_RAM
    /\ \A p \in 0 .. 7 :
           /\ wire[1].data[2 + 2 * p] = ExpectedPair(buf, rev, vf, hf, p)[1]
           /\ wire[1].data[3 + 2 * p] = ExpectedPair(buf, rev, vf, hf, p)[2]

\* the data bytes of physical row p in the transaction on the wire
PairOnWire(p) == << wire[1].data[2 + 2 * p], wire[1].data[3 + 2 * p] >>

\* C1: write() emits one transaction, the RAM command byte followed by 16
\* data bytes, two per physical row p = 0..7 in ascending order; the pair
\* of row p comes from buffer row (7 - p if vFlipped else p), bit-reversed
\* if hFlipped, sent low byte first, or high byte first when reversed.
\* Row 3 = 0x0005 gives 0x05,0x00 with no flag, 0x00,0x05 with reversed
\* only, 0x00,0xA0 with hFlipped only.
C1_WriteStream ==
    Last.op = "write" =>
        /\ IsWriteOf(buffer, reversed, vFlipped, hFlipped)
        /\ (buffer[3] = 5 /\ ~reversed /\ ~vFlipped /\ ~hFlipped)
               => PairOnWire(3) = << 5, 0 >>
        /\ (buffer[3] = 5 /\ reversed /\ ~vFlipped /\ ~hFlipped)
               => PairOnWire(3) = << 0, 5 >>
        /\ (buffer[3] = 5 /\ ~reversed /\ ~vFlipped /\ hFlipped)
               => PairOnWire(3) = << 0, 160 >>
        /\ buffer = Last.before.buffer
        /\ reversed = Last.before.reversed
        /\ vFlipped = Last.before.vFlipped
        /\ hFlipped = Last.before.hFlipped

\* a write of a full buffer with all three flags set: physical row 0 shows
\* buffer row 7 (0xFFFE), bit-reversed (0x7FFF), high byte first
C1_Witness ==
    /\ Last.op = "write"
    /\ reversed /\ vFlipped /\ hFlipped
    /\ buffer[7] = 65534
    /\ buffer[3] = 5
    /\ PairOnWire(0) = << 127, 255 >>
    /\ PairOnWire(4) = << 160, 0 >>

Flips == {"reverse", "flipVertical", "flipHorizontal"}

\* C3: reverse / flipVertical / flipHorizontal each toggle their own flag
\* and change nothing else, and two calls of the same one in a row cancel:
\* the write() that follows sends the stream it would have sent without
\* them.
C3_FlipTwiceCancels ==
    /\ Last.op = "reverse" =>
           /\ reversed = ~Last.before.reversed
           /\ vFlipped = Last.before.vFlipped
           /\ hFlipped = Last.before.hFlipped
           /\ buffer = Last.before.buffer
    /\ Last.op = "flipVertical" =>
           /\ reversed = Last.before.reversed
           /\ vFlipped = ~Last.before.vFlipped
           /\ hFlipped = Last.before.hFlipped
           /\ buffer = Last.before.buffer
    /\ Last.op = "flipHorizontal" =>
           /\ reversed = Last.before.reversed
           /\ vFlipped = Last.before.vFlipped
           /\ hFlipped = ~Last.before.hFlipped
           /\ buffer = Last.before.buffer
    /\ (hist[1].op = "write" /\ hist[2].op \in Flips /\ hist[3].op = hist[2].op) =>
           IsWriteOf(hist[3].before.buffer, hist[3].before.reversed,
                     hist[3].before.vFlipped, hist[3].before.hFlipped)

\* flipHorizontal twice, then write, on a full buffer with vFlipped set and
\* hFlipped clear
C3_Witness ==
    /\ hist[1].op = "write"
    /\ hist[2].op = "flipHorizontal"
    /\ hist[3].op = "flipHorizontal"
    /\ ~hist[3].before.hFlipped
    /\ hist[3].before.vFlipped
    /\ hist[3].before.buffer[7] = 65534
    /\ PairOnWire(0) = << 254, 255 >>

\* C6: clear() followed by write() transmits the RAM command byte and 16
\* zero data bytes whatever the orientation flags are, and clear() leaves
\* the three flags unchanged.
C6_ClearThenWrite ==
    /\ Last.op = "clear" =>
           /\ reversed = Last.before.reversed
           /\ vFlipped = Last.before.vFlipped
           /\ hFlipped = Last.before.hFlipped
           /\ wire = << >>
    /\ (hist[1].op = "write" /\ hist[2].op = "clear") =>
           /\ Len(wire) = 1
           /\ wire[1].kind = "tx"
           /\ Len(wire[1].data) = 17
           /\ wire[1].data[1] = HT16K33_CMD_RAM
           /\ \A j \in 2 .. 17 : wire[1].data[j] = 0

\* a full buffer cleared and written with all three flags set
C6_Witness ==
    /\ hist[1].op = "write"
    /\ hist[2].op = "clear"
    /\ hist[2].before.buffer[0] = 1
    /\ hist[2].before.buffer[7] = 65534
    /\ reversed /\ vFlipped /\ hFlipped
    /\ wire[1].data[17] = 0

-----------------------------------------------------------------------------
(* SpecFlip: _flip_uint16 applied twice to every 16-bit word.              *)

InitFlip ==
    /\ inited = FALSE
    /\ i2c_addr = 0
    /\ buffer = ZeroBuffer
    /\ reversed = FALSE
    /\ vFlipped = FALSE
    /\ hFlipped = FALSE
    /\ keybuffer = ZeroKeys
    /\ ret = FALSE
    /\ wire = << >>
    /\ power = "Asleep"
    /\ lastSys = "none"
    /\ callsLeft = 0
    /\ hist = << NoCall >>
    /\ flipIn \in Word
    /\ flipVal = flipIn
    /\ flipCnt = 0

FlipApply ==
    /\ flipCnt < 2
    /\ flipVal' = _flip_uint16(flipVal)
    /\ flipCnt' = flipCnt + 1
    /\ UNCHANGED << flipIn, drvVars >>

NextFlip == FlipApply

SpecFlip == InitFlip /\ [][NextFlip]_vars

\* C4: _flip_uint16 is self-inverse: reversing any of the 65536 16-bit
\* words twice yields the word again.
C4_FlipSelfInverse ==
    /\ flipVal \in Word
    /\ flipCnt = 2 => flipVal = flipIn

\* 0x0005 -> 0xA000 -> 0x0005
C4_Witness ==
    /\ flipCnt = 2
    /\ flipIn = 5
    /\ flipVal = 5

=============================================================================
